---- MODULE Spec2Model ----
(***************************************************************************)
(* A model of include_dir's Dir (src/include_dir/src/dir.rs): the embedded *)
(* directory tree, its exact-path lookups (get_file, get_dir, contains),   *)
(* the glob search (find) and the extraction onto a filesystem (extract).  *)
(*                                                                         *)
(* A path string is a sequence of one-character strings; std::path::Path   *)
(* compares two paths by their components, which Components computes.      *)
(* Option<T> is a sequence of length at most one: None is << >> and        *)
(* Some(x) is << x >>.                                                     *)
(***************************************************************************)
EXTENDS Integers, Sequences, FiniteSets, TLC

VARIABLES
    tree,   \* the root Dir of the embedded tree
    fs,     \* the filesystem: resolved path |-> entry
    it,     \* the iterator find returned (an Option)
    last    \* the last call: its arguments and what it returned

vars == <<tree, fs, it, last>>

(* ------------------------------ bounds --------------------------------- *)

\* Most File and Dir nodes below the root of a tree.
MaxNodes == 3

\* The characters a base name is made of.
Names == {"a", "b"}

\* File contents (byte strings, here opaque values).
Contents == {"hi", "yo"}

\* The paths a node of a tree that was not validated may carry.
StoredPaths == { << >>, <<"a">> }

\* The path of every node of a tree in which all paths clash.
ClashPaths == { <<"a", "/">> }

\* The path strings a caller makes up: names, separators and dots in the
\* places where Path treats them differently.
UserPaths ==
    { << >>, <<"a">>, <<"b">>, <<"a", "/">>, <<"/", "a">>, <<".", "/", "a">>,
      <<"a", "/", ".">>, <<"a", "/", "/">>, <<".">>, <<"/">>, <<".", ".">>,
      <<"a", "a">>, <<"a", ".">>, <<"a", "/", "a">>, <<"a", "/", "b">>,
      <<"a", "/", "b", "/">> }

(* ------------------------------ Option --------------------------------- *)

None == << >>

Some(x) == << x >>

(* ------------------------------ paths ---------------------------------- *)

RECURSIVE Segments(_)
\* The string cut at every "/" (the pieces may be empty).
Segments(s) ==
    IF \A i \in 1..Len(s) : s[i] # "/" THEN << s >>
    ELSE LET k == CHOOSE i \in 1..Len(s) :
                      s[i] = "/" /\ \A j \in 1..(i - 1) : s[j] # "/"
         IN  << SubSeq(s, 1, k - 1) >> \o Segments(SubSeq(s, k + 1, Len(s)))

RootDir == << "/" >>

CurDir == << "." >>

ParentDir == << ".", "." >>

RECURSIVE KeepSegments(_, _, _)
\* std::path::Components on the segments from index i on: empty segments are
\* dropped, "." is dropped unless it starts a path without a root.
KeepSegments(segs, i, has_root) ==
    IF i > Len(segs) THEN << >>
    ELSE LET seg  == segs[i]
             rest == KeepSegments(segs, i + 1, has_root)
         IN  IF seg = << >> THEN rest
             ELSE IF seg = CurDir
                  THEN IF i = 1 /\ ~has_root THEN << CurDir >> \o rest ELSE rest
                  ELSE << seg >> \o rest

\* Path::components(): RootDir for a leading separator, then CurDir, ParentDir
\* and Normal components.
Components(s) ==
    LET has_root == Len(s) > 0 /\ s[1] = "/"
    IN  (IF has_root THEN << RootDir >> ELSE << >>)
            \o KeepSegments(Segments(s), 1, has_root)

\* PathEq written as Path::starts_with: s begins with the components of t.
PathEq_prefix(s, t) ==
    LET a == Components(s)
        b == Components(t)
    IN  Len(b) <= Len(a) /\ SubSeq(a, 1, Len(b)) = b

\* Path == Path: the component sequences are equal.
PathEq(s, t) == Components(s) = Components(t)

\* file_name replaced by the whole relative path.
file_name_whole(s) == IF Components(s) = << >> THEN None ELSE Some(s)

\* Path::file_name(): the last component when it is a Normal one.
file_name(s) ==
    LET cs == Components(s)
    IN  IF cs = << >> THEN None
        ELSE LET c == cs[Len(cs)]
             IN  IF c \in {RootDir, CurDir, ParentDir} THEN None ELSE Some(c)

\* Path::join(base, name) for a relative name: a separator is put between the
\* two unless base is empty or already ends with one.
Join(base, name) ==
    IF base = << >> THEN name
    ELSE IF base[Len(base)] = "/" THEN base \o name
    ELSE base \o << "/" >> \o name

(* ------------------------------ trees ---------------------------------- *)

File(path, contents) == [path |-> path, contents |-> contents]

Dir(path, files, dirs) == [path |-> path, files |-> files, dirs |-> dirs]

RECURSIVE Size(_)
RECURSIVE SizeAll(_, _)
\* The number of File and Dir nodes below d.
Size(d) == Len(d.files) + Len(d.dirs) + SizeAll(d.dirs, 1)

SizeAll(dirs, i) ==
    IF i > Len(dirs) THEN 0 ELSE Size(dirs[i]) + SizeAll(dirs, i + 1)

RECURSIVE ValidLevels(_, _, _)
\* The children (files and dirs) of a directory with path parent, built by the
\* embedding step: every child's path is parent joined with a name no sibling
\* has, and at most n nodes are used.
ValidLevels(parent, names, n) ==
    { [files |-> << >>, dirs |-> << >>] } \cup
    (IF n = 0 THEN {}
     ELSE UNION { LET p == Join(parent, << nm >>)
                  IN  { [files |-> << File(p, c) >> \o r.files, dirs |-> r.dirs] :
                            c \in Contents, r \in ValidLevels(parent, names \ {nm}, n - 1) }
                      \cup
                      UNION { { [files |-> r.files,
                                 dirs  |-> << Dir(p, sub.files, sub.dirs) >> \o r.dirs] :
                                    r \in ValidLevels(parent, names \ {nm},
                                                      n - 1 - Len(sub.files) - Len(sub.dirs)
                                                        - SizeAll(sub.dirs, 1)) } :
                              sub \in ValidLevels(p, Names, n - 1) }
                : nm \in names })

\* The trees include_dir!() embeds, with at most n nodes below the root: the
\* root has the empty path.
ValidTrees(n) == { Dir(<< >>, l.files, l.dirs) : l \in ValidLevels(<< >>, Names, n) }

RECURSIVE AnyLevels(_, _)
\* The children of a directory of a tree built by hand (the fields are public
\* and nothing validates them): every node carries any of paths.
AnyLevels(n, paths) ==
    { [files |-> << >>, dirs |-> << >>] } \cup
    (IF n = 0 THEN {}
     ELSE UNION { { [files |-> << File(p, c) >> \o r.files, dirs |-> r.dirs] :
                        c \in Contents, r \in AnyLevels(n - 1, paths) }
                  \cup
                  UNION { { [files |-> r.files,
                             dirs  |-> << Dir(p, sub.files, sub.dirs) >> \o r.dirs] :
                                r \in AnyLevels(n - 1 - Len(sub.files) - Len(sub.dirs)
                                                  - SizeAll(sub.dirs, 1), paths) } :
                          sub \in AnyLevels(n - 1, paths) }
                : p \in paths })

AnyTrees(n, paths) == { Dir(<< >>, l.files, l.dirs) : l \in AnyLevels(n, paths) }

RECURSIVE AllDirs(_)
\* Every Dir strictly below d.
AllDirs(d) ==
    { d.dirs[i] : i \in 1..Len(d.dirs) }
        \cup UNION { AllDirs(d.dirs[i]) : i \in 1..Len(d.dirs) }

\* Every File below d, at any depth.
AllFiles(d) ==
    { d.files[i] : i \in 1..Len(d.files) }
        \cup UNION { { s.files[i] : i \in 1..Len(s.files) } : s \in AllDirs(d) }

(* ------------------------------ lookups -------------------------------- *)

RECURSIVE get_dir(_, _)
RECURSIVE get_dir_loop(_, _, _)
RECURSIVE get_file(_, _)
RECURSIVE get_file_dirs(_, _, _)

\* The loop of get_dir over self.dirs from index i: the directory itself when
\* its path matches, else the match inside it, else the next directory.
get_dir_loop(dirs, i, path) ==
    IF i > Len(dirs) THEN None
    ELSE IF PathEq(dirs[i].path, path) THEN Some(dirs[i])
    ELSE LET d == get_dir(dirs[i], path)
         IN  IF d # None THEN d ELSE get_dir_loop(dirs, i + 1, path)

\* get_dir that tests the receiver before its sub-directories.
get_dir_self(self, path) ==
    IF PathEq(self.path, path) THEN Some(self) ELSE get_dir_loop(self.dirs, 1, path)

get_dir(self, path) == get_dir_loop(self.dirs, 1, path)

RECURSIVE get_file_files(_, _, _)
\* The first loop of get_file, over self.files from index i.
get_file_files(files, i, path) ==
    IF i > Len(files) THEN None
    ELSE IF PathEq(files[i].path, path) THEN Some(files[i])
    ELSE get_file_files(files, i + 1, path)

\* The second loop of get_file returning whatever the first sub-directory says.
get_file_dirs_first(dirs, i, path) ==
    IF i > Len(dirs) THEN None ELSE get_file(dirs[i], path)

\* The second loop of get_file, over self.dirs from index i.
get_file_dirs(dirs, i, path) ==
    IF i > Len(dirs) THEN None
    ELSE LET d == get_file(dirs[i], path)
         IN  IF d # None THEN d ELSE get_file_dirs(dirs, i + 1, path)

\* get_file that searches the sub-directories before the direct files.
get_file_dirs_before(self, path) ==
    LET d == get_file_dirs(self.dirs, 1, path)
    IN  IF d # None THEN d ELSE get_file_files(self.files, 1, path)

\* get_file that takes the argument as relative to the receiver.
get_file_relative(self, path) ==
    LET f == get_file_files(self.files, 1, Join(self.path, path))
    IN  IF f # None THEN f ELSE get_file_dirs(self.dirs, 1, path)

get_file(self, path) ==
    LET f == get_file_files(self.files, 1, path)
    IN  IF f # None THEN f ELSE get_file_dirs(self.dirs, 1, path)

contains(self, path) == get_file(self, path) # None \/ get_dir(self, path) # None

(* ------------------------------ filesystem ----------------------------- *)

DirNode == [kind |-> "dir"]

FileNode(data) == [kind |-> "file", data |-> data]

\* A filesystem that holds its root directory only.
EmptyFs == << >> :> DirNode

RECURSIVE ResolveFrom(_, _, _)
\* The names from the root to the entry a path names (the working directory
\* is the root).
ResolveFrom(cs, i, acc) ==
    IF i > Len(cs) THEN acc
    ELSE IF cs[i] \in {RootDir, CurDir} THEN ResolveFrom(cs, i + 1, acc)
    ELSE IF cs[i] = ParentDir
         THEN ResolveFrom(cs, i + 1,
                          IF acc = << >> THEN acc ELSE SubSeq(acc, 1, Len(acc) - 1))
    ELSE ResolveFrom(cs, i + 1, Append(acc, cs[i]))

Resolve(s) == ResolveFrom(Components(s), 1, << >>)

\* The resolved paths of p's ancestors and of p itself.
Prefixes(p) == { SubSeq(p, 1, k) : k \in 0..Len(p) }

\* f with the first k ancestors-or-self of p made directories where missing.
MkDirs(f, p, k) ==
    [q \in DOMAIN f \cup { SubSeq(p, 1, j) : j \in 0..k } |->
        IF q \in DOMAIN f THEN f[q] ELSE DirNode]

\* f with the entry at p replaced by node.
Put(f, p, node) == [q \in DOMAIN f \cup {p} |-> IF q = p THEN node ELSE f[q]]

\* The I/O errors the environment may raise at any call: one that leaves the
\* filesystem as it was, one that strikes after part of the call took effect.
Injected == {"PermissionDenied", "StorageFull"}

\* No call of the run is made to fail by the environment.
NoFail == [at |-> 0, how |-> "PermissionDenied"]

\* The state threaded through one run of extract: the filesystem, the number
\* of filesystem calls made, the error that ended the run (an Option) and the
\* calls made so far.
Start(f) == [fs |-> f, calls |-> 0, err |-> None, log |-> << >>]

\* create_dir_all replaced by std::fs::create_dir: an existing entry is an
\* error, and so is a missing parent.
create_dir_only(path, st, fail) ==
    LET p    == Resolve(path)
        n    == st.calls + 1
        err  == IF fail.at = n THEN Some(fail.how)
                ELSE IF p \in DOMAIN st.fs THEN Some("AlreadyExists")
                ELSE IF SubSeq(p, 1, Len(p) - 1) \notin DOMAIN st.fs THEN Some("NotFound")
                ELSE None
    IN  [fs |-> IF err = None THEN Put(st.fs, p, DirNode) ELSE st.fs,
         calls |-> n, err |-> err,
         log |-> Append(st.log, [op |-> "create_dir_all", path |-> p, data |-> "",
                                 res |-> err])]

\* std::fs::create_dir_all: path and its missing ancestors become directories;
\* an existing directory is accepted, a file in the way is an error.
create_dir_all(path, st, fail) ==
    LET p       == Resolve(path)
        n       == st.calls + 1
        inway   == { q \in Prefixes(p) : q \in DOMAIN st.fs /\ st.fs[q].kind = "file" }
        err     == IF fail.at = n THEN Some(fail.how)
                   ELSE IF p \in inway THEN Some("AlreadyExists")
                   ELSE IF inway # {} THEN Some("NotADirectory")
                   ELSE None
        after   == IF fail.at = n
                   THEN IF fail.how = "StorageFull" /\ inway = {} /\ Len(p) > 0
                        THEN MkDirs(st.fs, p, Len(p) - 1)
                        ELSE st.fs
                   ELSE IF inway # {} THEN st.fs
                   ELSE MkDirs(st.fs, p, Len(p))
    IN  [fs |-> after, calls |-> n, err |-> err,
         log |-> Append(st.log, [op |-> "create_dir_all", path |-> p, data |-> "",
                                 res |-> err])]

\* File::write_to: the file at dest is created or truncated and holds the
\* file's contents; the directory it goes into must exist.
write_to(file, dest, st, fail) ==
    LET p       == Resolve(dest)
        n       == st.calls + 1
        parent  == SubSeq(p, 1, Len(p) - 1)
        refused == IF parent \notin DOMAIN st.fs THEN Some("NotFound")
                   ELSE IF st.fs[parent].kind = "file" THEN Some("NotADirectory")
                   ELSE IF p \in DOMAIN st.fs /\ st.fs[p].kind = "dir"
                        THEN Some("IsADirectory")
                   ELSE None
        err     == IF fail.at = n THEN Some(fail.how) ELSE refused
        after   == IF fail.at = n
                   THEN IF fail.how = "StorageFull" /\ refused = None
                        THEN Put(st.fs, p, FileNode(""))
                        ELSE st.fs
                   ELSE IF refused # None THEN st.fs
                   ELSE Put(st.fs, p, FileNode(file.contents))
    IN  [fs |-> after, calls |-> n, err |-> err,
         log |-> Append(st.log, [op |-> "write_to", path |-> p, data |-> file.contents,
                                 res |-> err])]

(* ------------------------------ extract -------------------------------- *)

RECURSIVE extract(_, _, _, _)
RECURSIVE extract_files(_, _, _, _, _)
RECURSIVE extract_dirs(_, _, _, _, _)

\* The loop of extract over self.files() from index i; `?` returns the first
\* error.
extract_files(files, i, target_dir, st, fail) ==
    IF i > Len(files) THEN st
    ELSE LET name == file_name(files[i].path)
         IN  IF name = None THEN [st EXCEPT !.err = Some("panic")]
             ELSE LET dest == Join(target_dir, name[1])
                      s    == write_to(files[i], dest, st, fail)
                  IN  IF s.err # None THEN s
                      ELSE extract_files(files, i + 1, target_dir, s, fail)

\* The loop over self.dirs() that drops the error of a sub-directory.
extract_dirs_ignore(dirs, i, target_dir, st, fail) ==
    IF i > Len(dirs) THEN st
    ELSE LET name == file_name(dirs[i].path)
         IN  IF name = None THEN [st EXCEPT !.err = Some("panic")]
             ELSE LET dest == Join(target_dir, name[1])
                      s    == extract(dirs[i], dest, st, fail)
                  IN  extract_dirs(dirs, i + 1, target_dir, [s EXCEPT !.err = None], fail)

\* The loop over self.dirs() that extracts every sub-directory into
\* target_dir itself.
extract_dirs_flat(dirs, i, target_dir, st, fail) ==
    IF i > Len(dirs) THEN st
    ELSE LET s == extract(dirs[i], target_dir, st, fail)
         IN  IF s.err # None THEN s
             ELSE extract_dirs(dirs, i + 1, target_dir, s, fail)

\* The loop of extract over self.dirs() from index i.
extract_dirs(dirs, i, target_dir, st, fail) ==
    IF i > Len(dirs) THEN st
    ELSE LET name == file_name(dirs[i].path)
         IN  IF name = None THEN [st EXCEPT !.err = Some("panic")]
             ELSE LET dest == Join(target_dir, name[1])
                      s    == extract(dirs[i], dest, st, fail)
                  IN  IF s.err # None THEN s
                      ELSE extract_dirs(dirs, i + 1, target_dir, s, fail)

extract(self, target_dir, st, fail) ==
    LET s1 == create_dir_all(target_dir, st, fail)
    IN  IF s1.err # None THEN s1
        ELSE LET s2 == extract_files(self.files, 1, target_dir, s1, fail)
             IN  IF s2.err # None THEN s2
                 ELSE extract_dirs(self.dirs, 1, target_dir, s2, fail)

(* ------------------------------ find ----------------------------------- *)

FileEntry(f) == [kind |-> "File", node |-> f]

DirEntry(d) == [kind |-> "Dir", node |-> d]

\* dir_entries with the sub-directories chained before the files.
dir_entries_dirs_first(self) ==
    [i \in 1..Len(self.dirs) |-> DirEntry(self.dirs[i])]
        \o [i \in 1..Len(self.files) |-> FileEntry(self.files[i])]

\* Dir::dir_entries: the direct files in stored order, chained with the
\* sub-directories in stored order.
dir_entries(self) ==
    [i \in 1..Len(self.files) |-> FileEntry(self.files[i])]
        \o [i \in 1..Len(self.dirs) |-> DirEntry(self.dirs[i])]

\* The glob strings a caller passes to find.
Globs == { <<"*", "*", "/", "*">>, <<"*">>, <<"a", "/", "*">>, <<"?">>, <<"[", "a">> }

RECURSIVE Tokens(_, _)
\* The tokens of a glob from index i: "**/" spans directories, "*" a run of
\* characters within one name, "?" one such character, others stand for
\* themselves.
Tokens(glob, i) ==
    IF i > Len(glob) THEN << >>
    ELSE IF glob[i] = "*" /\ i + 2 <= Len(glob) /\ glob[i + 1] = "*" /\ glob[i + 2] = "/"
         THEN << [t |-> "dirs"] >> \o Tokens(glob, i + 3)
    ELSE IF glob[i] = "*" THEN << [t |-> "run"] >> \o Tokens(glob, i + 1)
    ELSE IF glob[i] = "?" THEN << [t |-> "one"] >> \o Tokens(glob, i + 1)
    ELSE << [t |-> "char", c |-> glob[i]] >> \o Tokens(glob, i + 1)

\* Pattern::new: the compiled pattern, or a PatternError for a bracket that
\* is never closed.
Pattern_new(glob) ==
    IF \E i \in 1..Len(glob) :
          glob[i] = "[" /\ \A j \in (i + 1)..Len(glob) : glob[j] # "]"
    THEN [ok |-> FALSE, err |-> "PatternError"]
    ELSE [ok |-> TRUE, pattern |-> Tokens(glob, 1)]

RECURSIVE matches(_, _, _, _)
\* Whether the tokens from index i match the string s from index j to its end.
matches(pattern, i, s, j) ==
    IF i > Len(pattern) THEN j > Len(s)
    ELSE LET tk == pattern[i]
         IN  IF tk.t = "char"
             THEN j <= Len(s) /\ s[j] = tk.c /\ matches(pattern, i + 1, s, j + 1)
             ELSE IF tk.t = "one"
             THEN j <= Len(s) /\ s[j] # "/" /\ matches(pattern, i + 1, s, j + 1)
             ELSE IF tk.t = "run"
             THEN \/ matches(pattern, i + 1, s, j)
                  \/ j <= Len(s) /\ s[j] # "/" /\ matches(pattern, i, s, j + 1)
             ELSE \/ matches(pattern, i + 1, s, j)
                  \/ \E k \in j..Len(s) : s[k] = "/" /\ matches(pattern, i + 1, s, k + 1)

\* Pattern::matches_path: the pattern against the whole stored path string.
matches_path(pattern, path) == matches(pattern, 1, path, 1)

\* Globs::new: the walk starts at the directory itself.
Globs_new(pattern, root) ==
    [stack |-> << DirEntry(root) >>, pattern |-> pattern, out |-> << >>]

RECURSIVE Globs_next(_)
\* Iterator::next of the walk: the entries still to visit are taken from the
\* front; a directory's entries are visited right after it; the first entry
\* whose path matches is yielded (out records what was yielded so far).
Globs_next(g) ==
    IF g.stack = << >> THEN [g |-> g, item |-> None]
    ELSE LET item == Head(g.stack)
             rest == IF item.kind = "Dir"
                     THEN dir_entries(item.node) \o Tail(g.stack)
                     ELSE Tail(g.stack)
         IN  IF matches_path(g.pattern, item.node.path)
             THEN [g |-> [g EXCEPT !.stack = rest, !.out = Append(g.out, item)],
                   item |-> Some(item)]
             ELSE Globs_next([g EXCEPT !.stack = rest])

\* Dir::find: the pattern is compiled first; its error is returned as is.
find(self, glob) ==
    LET pattern == Pattern_new(glob)
    IN  IF ~pattern.ok THEN [ok |-> FALSE, err |-> pattern.err]
        ELSE [ok |-> TRUE, iter |-> Globs_new(pattern.pattern, self)]

(* ------------------------------ actions -------------------------------- *)

\* The receivers of a call: the root and every directory below it.
Receivers == {tree} \cup AllDirs(tree)

\* The paths a caller passes: the made-up strings, and every stored path.
Queries ==
    UserPaths \cup { d.path : d \in Receivers } \cup { f.path : f \in AllFiles(tree) }

Idle == [op |-> "none"]

GetFile(self, path) ==
    /\ last = Idle
    /\ last' = [op |-> "get_file", self |-> self, path |-> path,
                ret |-> get_file(self, path)]
    /\ UNCHANGED <<tree, fs, it>>

GetDir(self, path) ==
    /\ last = Idle
    /\ last' = [op |-> "get_dir", self |-> self, path |-> path,
                ret |-> get_dir(self, path)]
    /\ UNCHANGED <<tree, fs, it>>

Contains(self, path) ==
    /\ last = Idle
    /\ last' = [op |-> "contains", self |-> self, path |-> path,
                ret |-> contains(self, path)]
    /\ UNCHANGED <<tree, fs, it>>

\* The caller drops the value a call returned.
Return ==
    /\ last # Idle
    /\ last' = Idle
    /\ UNCHANGED <<tree, fs, it>>

\* The lookups on trees as embedded (and on small hand-built ones).
InitLookup ==
    /\ tree \in ValidTrees(MaxNodes) \cup AnyTrees(MaxNodes - 1, StoredPaths)
    /\ fs = EmptyFs
    /\ it = None
    /\ last = Idle

\* The lookups on hand-built trees, which nothing validates: nodes may share
\* a path, or all carry the same one.
InitLookupRaw ==
    /\ tree \in ValidTrees(MaxNodes) \cup AnyTrees(MaxNodes, StoredPaths)
                   \cup AnyTrees(MaxNodes + 1, ClashPaths)
    /\ fs = EmptyFs
    /\ it = None
    /\ last = Idle

NextLookup ==
    \/ \E self \in Receivers, path \in Queries : GetFile(self, path)
    \/ \E self \in Receivers, path \in Queries : GetDir(self, path)
    \/ \E self \in Receivers, path \in Queries : Contains(self, path)
    \/ Return

SpecLookup == InitLookup /\ [][NextLookup]_vars

SpecLookupRaw == InitLookupRaw /\ [][NextLookup]_vars

\* The locations a caller extracts to.
Targets == { <<"t">>, <<"t", "/", "a">> }

\* The ways the environment may treat one run on self: no failure, or one of
\* the Injected errors at one of its filesystem calls.
Fails(self) == {NoFail} \cup [at : 1..(Size(self) + 1), how : Injected]

Extract(self, target_dir, fail) ==
    /\ last = Idle
    /\ LET r == extract(self, target_dir, Start(fs), fail)
       IN  /\ fs' = r.fs
           /\ last' = [op |-> "extract", self |-> self, target |-> target_dir,
                       before |-> fs, ret |-> r.err, log |-> r.log]
    /\ UNCHANGED <<tree, it>>

InitExtract ==
    /\ tree \in ValidTrees(MaxNodes)
    /\ fs = EmptyFs
    /\ it = None
    /\ last = Idle

NextExtract ==
    \/ \E self \in Receivers, target_dir \in Targets :
          \E fail \in Fails(self) : Extract(self, target_dir, fail)
    \/ Return

SpecExtract == InitExtract /\ [][NextExtract]_vars

Find(self, glob) ==
    /\ last = Idle
    /\ it = None
    /\ LET r == find(self, glob)
       IN  /\ it' = IF r.ok THEN Some(r.iter) ELSE None
           /\ last' = [op |-> "find", self |-> self, glob |-> glob,
                       ret |-> IF r.ok THEN "Ok" ELSE r.err]
    /\ UNCHANGED <<tree, fs>>

\* The caller asks the iterator for its next entry.
IterNext ==
    /\ it # None
    /\ last.op \in {"find", "next"}
    /\ LET r == Globs_next(it[1])
       IN  /\ it' = Some(r.g)
           /\ last' = [op |-> "next", self |-> last.self, glob |-> last.glob,
                       ret |-> r.item]
    /\ UNCHANGED <<tree, fs>>

\* The caller drops the iterator.
Drop ==
    /\ it # None
    /\ it' = None
    /\ last' = Idle
    /\ UNCHANGED <<tree, fs>>

\* A call of find that returned an error is over.
FindFailed ==
    /\ last.op = "find"
    /\ it = None
    /\ last' = Idle
    /\ UNCHANGED <<tree, fs, it>>

InitFind ==
    /\ tree \in ValidTrees(MaxNodes + 1)
    /\ fs = EmptyFs
    /\ it = None
    /\ last = Idle

NextFind ==
    \/ \E self \in Receivers, glob \in Globs : Find(self, glob)
    \/ IterNext
    \/ Drop
    \/ FindFailed

SpecFind == InitFind /\ [][NextFind]_vars

(* ----------------------- the data-model invariants --------------------- *)

RECURSIVE FilesInOrder(_)
RECURSIVE FilesInOrderAll(_, _)
\* The File nodes below d, one entry per node: the direct files in stored
\* order, then those of each sub-directory in stored order.
FilesInOrder(d) == d.files \o FilesInOrderAll(d.dirs, 1)

FilesInOrderAll(dirs, i) ==
    IF i > Len(dirs) THEN << >>
    ELSE FilesInOrder(dirs[i]) \o FilesInOrderAll(dirs, i + 1)

RECURSIVE DirsInOrder(_, _)
\* The Dir nodes below a directory with sub-directories dirs (from index i),
\* one entry per node: each sub-directory, then the directories inside it.
DirsInOrder(dirs, i) ==
    IF i > Len(dirs) THEN << >>
    ELSE << dirs[i] >> \o DirsInOrder(dirs[i].dirs, 1) \o DirsInOrder(dirs, i + 1)

\* Two path strings name the same path.
SamePath(s, t) == Components(s) = Components(t)

\* No two entries of a sequence of nodes carry the same path.
DistinctPaths(nodes) ==
    \A i, j \in 1..Len(nodes) : i # j => ~SamePath(nodes[i].path, nodes[j].path)

RECURSIVE WellFormed(_)
\* The invariants of the data model below d: every child's path is d's path
\* joined with one name, and no two children of d share a path.
WellFormed(d) ==
    /\ \A i \in 1..Len(d.files) : \E nm \in Names : d.files[i].path = Join(d.path, << nm >>)
    /\ \A i \in 1..Len(d.dirs) : \E nm \in Names : d.dirs[i].path = Join(d.path, << nm >>)
    /\ DistinctPaths(d.files \o d.dirs)
    /\ \A i \in 1..Len(d.dirs) : WellFormed(d.dirs[i])

\* A tree as embedded: the root has the empty path and the invariants hold.
ValidTree(t) == t.path = << >> /\ WellFormed(t)

\* No two File nodes and no two Dir nodes below t share a path.
TreeWideDistinct(t) ==
    /\ DistinctPaths(FilesInOrder(t))
    /\ DistinctPaths(DirsInOrder(t.dirs, 1))

RECURSIVE FirstMatch(_, _, _)
\* The first entry of nodes, from index i on, whose path is path.
FirstMatch(nodes, i, path) ==
    IF i > Len(nodes) THEN None
    ELSE IF SamePath(nodes[i].path, path) THEN Some(nodes[i])
    ELSE FirstMatch(nodes, i + 1, path)

(* ------------------------------ C1 ------------------------------------- *)

\* C1: on a tree that satisfies the data-model invariants, get_file on the root
\* with the path of a File present at any depth returns that File, and get_dir
\* on the root with the path of a Dir below the root returns that Dir.
C1_PresentIsFound ==
    (ValidTree(tree) /\ last.op \in {"get_file", "get_dir"} /\ last.self = tree) =>
        /\ last.op = "get_file" =>
              \A f \in AllFiles(tree) : last.path = f.path => last.ret = Some(f)
        /\ last.op = "get_dir" =>
              \A d \in AllDirs(tree) : last.path = d.path => last.ret = Some(d)

\* A File two levels down is looked up by its path on a valid tree.
C1_Witness ==
    /\ ValidTree(tree) /\ last.op = "get_file" /\ last.self = tree
    /\ \E i \in 1..Len(tree.dirs) : \E j \in 1..Len(tree.dirs[i].files) :
          /\ last.path = tree.dirs[i].files[j].path
          /\ last.ret = Some(tree.dirs[i].files[j])
    /\ Len(tree.files) > 0

(* ------------------------------ C2 ------------------------------------- *)

\* C2: on any tree and any receiver, a path that is the path of no File and of
\* no Dir below the receiver makes get_file and get_dir return None and
\* contains return false; every lookup returns an Option or a boolean, never
\* an error.
C2_AbsentIsNone ==
    last.op \in {"get_file", "get_dir", "contains"} =>
        LET absent ==
                /\ \A f \in AllFiles(last.self) : ~SamePath(f.path, last.path)
                /\ \A d \in AllDirs(last.self) : ~SamePath(d.path, last.path)
        IN  /\ last.op = "get_file" =>
                  /\ last.ret = None \/ \E f \in AllFiles(last.self) : last.ret = Some(f)
                  /\ absent => last.ret = None
            /\ last.op = "get_dir" =>
                  /\ last.ret = None \/ \E d \in AllDirs(last.self) : last.ret = Some(d)
                  /\ absent => last.ret = None
            /\ last.op = "contains" =>
                  /\ last.ret \in BOOLEAN
                  /\ absent => last.ret = FALSE

\* contains is asked for a path that only extends a stored path, on a tree that
\* holds files and directories, and answers false.
C2_Witness ==
    /\ last.op = "contains" /\ last.ret = FALSE
    /\ AllFiles(last.self) # {} /\ AllDirs(last.self) # {}
    /\ \E f \in AllFiles(last.self) :
          /\ Len(last.path) > Len(f.path) /\ Len(f.path) > 0
          /\ SubSeq(last.path, 1, Len(f.path)) = f.path

(* ------------------------------ C8 ------------------------------------- *)

\* C8: get_dir never returns its receiver: asked for the receiver's own path it
\* returns None unless a directory strictly below carries that path; get_file
\* with the empty path returns None when every file's path is non-empty.
C8_ReceiverNotReturned ==
    /\ last.op = "get_dir" =>
          /\ last.ret # Some(last.self)
          /\ (/\ SamePath(last.path, last.self.path)
              /\ \A d \in AllDirs(last.self) : ~SamePath(d.path, last.self.path))
                 => last.ret = None
    /\ (/\ last.op = "get_file"
        /\ last.path = << >>
        /\ \A f \in AllFiles(last.self) : f.path # << >>)
           => last.ret = None

\* The root, which has sub-directories, is asked for its own (empty) path.
C8_Witness ==
    /\ last.op = "get_dir" /\ last.self = tree /\ last.path = tree.path
    /\ tree.path = << >> /\ Len(tree.dirs) > 0 /\ last.ret = None

(* ------------------------------ C9 ------------------------------------- *)

\* C9: when several nodes carry the same path, get_file returns the first
\* match among the direct files, else the result of get_file on the first
\* sub-directory whose subtree holds a match; get_dir returns, for the first
\* sub-directory that matches or holds a match, the sub-directory itself when
\* it matches and else the match inside it.  A match is equality of the whole
\* path, so the returned node's path has the components of the argument.
C9_FirstMatch ==
    /\ last.op = "get_file" =>
          /\ last.ret = FirstMatch(FilesInOrder(last.self), 1, last.path)
          /\ last.ret # None => Components(last.ret[1].path) = Components(last.path)
    /\ last.op = "get_dir" =>
          /\ last.ret = FirstMatch(DirsInOrder(last.self.dirs, 1), 1, last.path)
          /\ last.ret # None => Components(last.ret[1].path) = Components(last.path)

\* Two sub-directories each hold a file with the asked path and different
\* contents; the file of the first one is returned.
C9_Witness ==
    /\ last.op = "get_file" /\ last.self = tree /\ Len(tree.dirs) = 2
    /\ \E f \in AllFiles(tree.dirs[1]), g \in AllFiles(tree.dirs[2]) :
          /\ SamePath(f.path, last.path) /\ SamePath(g.path, last.path)
          /\ f # g
          /\ last.ret = Some(f)

(* ------------------------------ C10 ------------------------------------ *)

\* C10: lookups compare with the stored, root-relative paths.  On a tree whose
\* paths are distinct tree-wide, a lookup on any directory d of it that
\* returns a node returns the node the same lookup on the root returns, and it
\* returns a node exactly when a node with that path lies below d.
C10_RootRelative ==
    (TreeWideDistinct(tree) /\ last.op \in {"get_file", "get_dir"}) =>
        /\ last.op = "get_file" =>
              /\ last.ret # None => get_file(tree, last.path) = last.ret
              /\ last.ret # None <=>
                    \E f \in AllFiles(last.self) : SamePath(f.path, last.path)
        /\ last.op = "get_dir" =>
              /\ last.ret # None => get_dir(tree, last.path) = last.ret
              /\ last.ret # None <=>
                    \E d \in AllDirs(last.self) : SamePath(d.path, last.path)

\* A sub-directory is asked for one of its files by the path relative to
\* itself and returns None, while the stored path finds the file.
C10_Witness ==
    /\ ValidTree(tree) /\ last.op = "get_file" /\ last.self # tree
    /\ last.ret = None
    /\ \E f \in AllFiles(last.self) :
          /\ f.path = Join(last.self.path, last.path)
          /\ get_file(last.self, f.path) = Some(f)

(* ------------------------------ C5 ------------------------------------- *)

RECURSIVE PreOrder(_)
RECURSIVE PreOrderAll(_, _)
\* A directory, then its direct files in stored order, then each of its
\* sub-directories in stored order, each in the same way.
PreOrder(d) ==
    << DirEntry(d) >> \o [i \in 1..Len(d.files) |-> FileEntry(d.files[i])]
        \o PreOrderAll(d.dirs, 1)

PreOrderAll(dirs, i) ==
    IF i > Len(dirs) THEN << >>
    ELSE PreOrder(dirs[i]) \o PreOrderAll(dirs, i + 1)

AllGlob == <<"*", "*", "/", "*">>

\* C5: find(dir, "**/*") yields the entries reachable from dir in pre-order
\* (a directory, then its files in stored order, then its sub-directories in
\* stored order, recursively), one entry per node, and all of them by the
\* time the iterator is exhausted.
C5_FindAllPreOrder ==
    (it # None /\ last.op \in {"find", "next"} /\ last.glob = AllGlob) =>
        LET order == PreOrder(last.self)
            out   == it[1].out
        IN  /\ Len(out) <= Len(order)
            /\ out = SubSeq(order, 1, Len(out))
            /\ (last.op = "next" /\ last.ret = None) => out = order
            /\ (last.op = "next" /\ last.ret # None) => last.ret = Some(out[Len(out)])

\* The walk of a directory that holds a file and a sub-directory with a file
\* of its own is exhausted.
C5_Witness ==
    /\ it # None /\ last.op = "next" /\ last.glob = AllGlob /\ last.ret = None
    /\ last.self = tree
    /\ Len(tree.files) > 0 /\ Len(tree.dirs) > 0 /\ Len(tree.dirs[1].files) > 0
    /\ Len(it[1].out) = Size(tree) + 1

(* ------------------------------ C3 ------------------------------------- *)

\* The base name of a stored path: its last segment.
LastSegment(s) == Segments(s)[Len(Segments(s))]

RECURSIVE Expected(_, _)
\* What extracting d to the resolved location t is to leave there: the
\* directory t, a regular file per direct file at t joined with the file's
\* base name, and each sub-directory extracted to t joined with its base name.
Expected(d, t) ==
    { << t, DirNode >> }
        \cup { << Append(t, LastSegment(d.files[i].path)), FileNode(d.files[i].contents) >> :
                  i \in 1..Len(d.files) }
        \cup UNION { Expected(d.dirs[i], Append(t, LastSegment(d.dirs[i].path))) :
                        i \in 1..Len(d.dirs) }

\* C3: after a successful extract(dir, target) on an empty filesystem, the
\* filesystem holds exactly the directory target (with the directories that
\* lead to it), a regular file with the file's bytes at target joined with
\* the base name of each direct file, and each sub-directory extracted
\* recursively to target joined with its base name.
C3_ExtractLayout ==
    (last.op = "extract" /\ last.ret = None /\ last.before = EmptyFs) =>
        LET t   == Resolve(last.target)
            exp == Expected(last.self, t)
        IN  /\ DOMAIN fs = Prefixes(t) \cup { e[1] : e \in exp }
            /\ \A q \in Prefixes(t) : fs[q] = DirNode
            /\ \A e \in exp : fs[e[1]] = e[2]

\* The root, holding a file and a sub-directory with a file, was extracted to
\* an empty filesystem and the nested file is below the sub-directory's name.
C3_Witness ==
    /\ last.op = "extract" /\ last.ret = None /\ last.before = EmptyFs
    /\ last.self = tree /\ Len(tree.files) > 0 /\ Len(tree.dirs) > 0
    /\ Len(tree.dirs[1].files) > 0
    /\ LET q == Resolve(last.target)
                   \o << LastSegment(tree.dirs[1].path),
                         LastSegment(tree.dirs[1].files[1].path) >>
       IN  q \in DOMAIN fs /\ fs[q] = FileNode(tree.dirs[1].files[1].contents)

(* ------------------------------ C4 ------------------------------------- *)

RECURSIVE PlanOf(_, _)
RECURSIVE PlanAll(_, _, _)
\* The filesystem steps of extracting d to the resolved location t, in order:
\* create the target directory, write each direct file, then the steps of
\* each sub-directory.
PlanOf(d, t) ==
    << [op |-> "create_dir_all", path |-> t, data |-> ""] >>
        \o [i \in 1..Len(d.files) |->
               [op |-> "write_to", path |-> Append(t, LastSegment(d.files[i].path)),
                data |-> d.files[i].contents]]
        \o PlanAll(d.dirs, 1, t)

PlanAll(dirs, i, t) ==
    IF i > Len(dirs) THEN << >>
    ELSE PlanOf(dirs[i], Append(t, LastSegment(dirs[i].path))) \o PlanAll(dirs, i + 1, t)

\* The paths a step may change.
Touched(step) ==
    IF step.op = "create_dir_all" THEN Prefixes(step.path) ELSE {step.path}

\* The filesystem after a step that succeeds.
ApplyStep(f, step) ==
    IF step.op = "create_dir_all"
    THEN [q \in DOMAIN f \cup Prefixes(step.path) |-> IF q \in DOMAIN f THEN f[q] ELSE DirNode]
    ELSE [q \in DOMAIN f \cup {step.path} |->
             IF q = step.path THEN FileNode(step.data) ELSE f[q]]

RECURSIVE ApplySteps(_, _, _)
\* The filesystem after the first k steps of plan succeeded.
ApplySteps(f, plan, k) ==
    IF k = 0 THEN f ELSE ApplyStep(ApplySteps(f, plan, k - 1), plan[k])

\* C4: extract makes its filesystem calls in a fixed order (the target
\* directory, the direct files in stored order, the sub-directories in stored
\* order, recursively); when the k-th call fails extract returns that call's
\* error, makes no further call, and what calls 1..k-1 did stays as it was
\* (only the failed call itself may have left something: directories on the
\* way to its path, or its own file cut short).
C4_FirstErrorAborts ==
    last.op = "extract" =>
        LET plan == PlanOf(last.self, Resolve(last.target))
            k    == Len(last.log)
            made == [i \in 1..k |-> [op |-> last.log[i].op, path |-> last.log[i].path,
                                     data |-> last.log[i].data]]
        IN  /\ 1 <= k /\ k <= Len(plan)
            /\ made = SubSeq(plan, 1, k)
            /\ \A i \in 1..(k - 1) : last.log[i].res = None
            /\ last.ret = last.log[k].res
            /\ last.ret = None => k = Len(plan) /\ fs = ApplySteps(last.before, plan, k)
            /\ last.ret # None =>
                  LET prior == ApplySteps(last.before, plan, k - 1)
                      torn  == IF plan[k].op = "write_to"
                                    /\ \A i \in 1..(k - 1) : plan[i].path # plan[k].path
                               THEN {plan[k].path} ELSE {}
                  IN  /\ DOMAIN prior \subseteq DOMAIN fs
                      /\ DOMAIN fs \ DOMAIN prior \subseteq Touched(plan[k])
                      /\ \A q \in DOMAIN prior \ torn : fs[q] = prior[q]

\* Creating a sub-directory fails after a file of the receiver was written;
\* calls remain in the plan, and the written file is still there.
C4_Witness ==
    /\ last.op = "extract" /\ last.ret # None
    /\ Len(last.log) >= 3
    /\ last.log[Len(last.log)].op = "create_dir_all"
    /\ Len(last.log) < Len(PlanOf(last.self, Resolve(last.target)))
    /\ last.log[2].op = "write_to" /\ last.log[2].path \notin DOMAIN last.before
    /\ last.log[2].path \in DOMAIN fs
    /\ fs[last.log[2].path] = FileNode(last.log[2].data)

(* ------------------------------ C6 ------------------------------------- *)

\* C6 as stated: after a successful extract(T, target), every file of the tree
\* T, at whatever depth, is read back at target joined with its base name.
C6_Flattened ==
    (last.op = "extract" /\ last.ret = None) =>
        \A f \in AllFiles(last.self) :
            LET q == Append(Resolve(last.target), LastSegment(f.path))
            IN  q \in DOMAIN fs /\ fs[q] = FileNode(f.contents)

RECURSIVE ReadBack(_, _)
\* Every direct file of d is read back at t joined with its base name, and
\* every sub-directory's files below t joined with the sub-directory's base
\* name, recursively.
ReadBack(d, t) ==
    /\ \A i \in 1..Len(d.files) :
          LET q == Append(t, LastSegment(d.files[i].path))
          IN  q \in DOMAIN fs /\ fs[q] = FileNode(d.files[i].contents)
    /\ \A i \in 1..Len(d.dirs) : ReadBack(d.dirs[i], Append(t, LastSegment(d.dirs[i].path)))

\* C6, amended: after a successful extract(T, target), a direct file of T with
\* path a/b is read back with its bytes at target/b; a file below the
\* sub-directories d1..dk of T is read back at target/base(d1)/../base(dk)/b.
C6_RoundTrip ==
    (last.op = "extract" /\ last.ret = None) => ReadBack(last.self, Resolve(last.target))

\* The directory a, which holds the file a/b with content "hi" and a
\* sub-directory, was extracted, and target/b reads "hi".
C6_Witness ==
    /\ last.op = "extract" /\ last.ret = None
    /\ last.self.path = <<"a">>
    /\ \E i \in 1..Len(last.self.files) :
          /\ last.self.files[i] = File(<<"a", "/", "b">>, "hi")
          /\ fs[Append(Resolve(last.target), <<"b">>)] = FileNode("hi")
    /\ Len(last.self.dirs) > 0

(* ------------------------------ C7 ------------------------------------- *)

\* C7: when no call fails, extracting the same tree to the same target once
\* more succeeds and leaves the filesystem as the first extraction left it.
C7_Idempotent ==
    (last.op = "extract" /\ last.ret = None) =>
        LET again == extract(last.self, last.target, Start(fs), NoFail)
        IN  again.err = None /\ again.fs = fs

\* A second extraction of a tree with files and a sub-directory ran on what
\* the first one left and changed nothing.
C7_Witness ==
    /\ last.op = "extract" /\ last.ret = None /\ last.before = fs
    /\ last.self = tree /\ Len(tree.files) > 0 /\ Len(tree.dirs) > 0
    /\ Len(last.log) = Size(tree) + 1

====
